---------------------------- MODULE Spec2Model ----------------------------
(***************************************************************************)
(* Model of debian-package-installer.py: the index builder, the atom and   *)
(* alternative resolvers, the closure walker and the artifact fetcher.     *)
(*                                                                         *)
(* Strings that the program only compares for equality are TLA+ strings.   *)
(* Strings that it takes apart or orders (index file stems, source hints,  *)
(* Filename paths) are sequences of tokens: a token is a maximal run of    *)
(* characters without '-' and '/', and "-" and "/" are tokens themselves.  *)
(* Python's None is the string "None" for an optional string and NoRecord  *)
(* for an optional PackageRecord.  Multi-Arch and Priority are stored by   *)
(* the program and never read; the model leaves them out.                  *)
(***************************************************************************)
EXTENDS Integers, Sequences, FiniteSets, TLC

VARIABLES
    repo,               \* os.listdir(REPO_DIR): the index files, in scan order
    packages,           \* args.packages, in order, each as _parse_single_dep_atom reads it
    base_urls,          \* the --base-url list, in order
    control,            \* relative path -> dependency field of the .deb a mirror serves
    pc,                 \* position of the main program
    pkgs_by_name,       \* name -> list of PackageRecord
    provides_index,     \* virtual name -> list of PackageRecord
    target_arch,        \* the run's single architecture
    visited_pkgkeys,    \* set of (name, version, arch)
    visited_filenames,  \* set of Filename values
    stack,              \* the DFS stack of fetch_dependencies_recursive
    pkgIdx,             \* index into packages of the top-level name being walked
    pkg,                \* the record popped and being processed
    urlIdx,             \* index into base_urls of the next GET of the current fetch
    response,           \* body of the successful GET, before it is written
    disk,               \* DOWNLOAD_DIR: basename -> file content
    exit_code,          \* "running", "zero" or "nonzero"
    error,              \* the fatal error that ended the process, or NoError
    run,                \* number of the current invocation of the tool
    fetches,            \* history: the records given to _process_package_and_get_deps in this run, in order
    gets,               \* history: the HTTP GETs issued for the current artifact, in order
    prev_exit,          \* history: exit code of the previous invocation, None in the first
    lastRes             \* history: the last call of the resolver made by ResolveAtom or ResolveGroup

vars == <<repo, packages, base_urls, control, pc, pkgs_by_name, provides_index,
          target_arch, visited_pkgkeys, visited_filenames, stack, pkgIdx, pkg,
          urlIdx, response, disk, exit_code, error, run, fetches, gets, prev_exit,
          lastRes>>

None == "None"
NoRecord == [none |-> TRUE]
\* No response object is held.
NoResponse == [none |-> TRUE]

NoError == [kind |-> "NoError"]
NoCall == [call |-> "none"]

(***************************************************************************)
(* Bounds of the model.                                                    *)
(***************************************************************************)
MaxStanzas == 2      \* stanzas in an index, over all its files (resolver inputs)
MaxPackages == 2     \* top-level names on the command line
MaxUrls == 2         \* base URLs on the command line
MaxRuns == 2         \* invocations of the tool against the same download directory

(***************************************************************************)
(* Generic helpers.                                                        *)
(***************************************************************************)
Lookup(d, k, default) == IF k \in DOMAIN d THEN d[k] ELSE default

Put(d, k, v) == [x \in (DOMAIN d) \cup {k} |-> IF x = k THEN v ELSE d[x]]

Range(s) == {s[i] : i \in DOMAIN s}

SeqsUpTo(S, n) == UNION {[1..k -> S] : k \in 0..n}

Min(S) == CHOOSE i \in S : \A j \in S : i <= j

Max(S) == CHOOSE i \in S : \A j \in S : j <= i

\* Index of the last occurrence of token t in s, 0 when there is none.
LastIndexOf(s, t) == Max({0} \cup {i \in DOMAIN s : s[i] = t})

\* str.rpartition(sep) on a token sequence, cut at index i (0: sep not found):
\* <<before, sep-found, after>>.
RPartitionAt(s, i) ==
    IF i = 0 THEN <<<<>>, FALSE, s>>
    ELSE <<SubSeq(s, 1, i - 1), TRUE, SubSeq(s, i + 1, Len(s))>>

RPartition(s, sep) == RPartitionAt(s, LastIndexOf(s, sep))

(***************************************************************************)
(* Order of strings.  Python compares str values character by character;   *)
(* on token sequences whose tokens are prefix-free that is the             *)
(* lexicographic order of the tokens' ranks, with '-' < '/' < digits <     *)
(* upper case < lower case as in ASCII.                                    *)
(***************************************************************************)
TokRank(t) ==
    CASE t = "-" -> 0
      [] t = "/" -> 1
      [] t = "A" -> 2
      [] t = "B" -> 3
      [] t = "amd64" -> 4
      [] t = "arm64" -> 5
      [] t = "binary" -> 6
      [] t = "jammy" -> 7
      [] t = "main" -> 8
      [] OTHER -> 9

RECURSIVE StrLess(_, _)
StrLess(s, t) ==
    IF t = <<>> THEN FALSE
    ELSE IF s = <<>> THEN TRUE
    ELSE IF TokRank(Head(s)) # TokRank(Head(t)) THEN TokRank(Head(s)) < TokRank(Head(t))
    ELSE StrLess(Tail(s), Tail(t))

(***************************************************************************)
(* debian.debian_support.Version: epoch, upstream version and Debian       *)
(* revision, compared in that order; an absent revision compares as "0",   *)
(* so "1.0" and "1.0-0" are different strings of equal Version.            *)
(***************************************************************************)
Versions == {"1.0", "1.0-0", "2.0"}

Version(v) ==
    CASE v = "1.0" -> <<0, 1, 0>>
      [] v = "1.0-0" -> <<0, 1, 0>>
      [] v = "2.0" -> <<0, 2, 0>>
      [] v = "1:0.5" -> <<1, 0, 0>>

TupleLess(x, y) ==
    \/ x[1] < y[1]
    \/ x[1] = y[1] /\ x[2] < y[2]
    \/ x[1] = y[1] /\ x[2] = y[2] /\ x[3] < y[3]

VersionLess(a, b) == TupleLess(Version(a), Version(b))

VersionEq(a, b) == Version(a) = Version(b)


(***************************************************************************)
(* Index builder.  An index file is [stem, stanzas]: the tokens of its     *)
(* name without ".txt", and its stanzas in file order.  A stanza is a      *)
(* record of its fields; a field the stanza lacks is "" (<<>> for          *)
(* Filename and for the dependency fields).  Provides is the list of its   *)
(* comma-separated entries, each [name, op, ver].                          *)
(***************************************************************************)
Fatal(kind, detail) == [ok |-> FALSE, error |-> [kind |-> kind, detail |-> detail]]

PackageRecord(name, version, arch, filename, depends_raw, pre_depends_raw, provides_map, source_hint) ==
    [name |-> name, version |-> version, arch |-> arch, filename |-> filename,
     depends_raw |-> depends_raw, pre_depends_raw |-> pre_depends_raw,
     provides_map |-> provides_map, source_hint |-> source_hint]

ParseProvidesPart(p, result) ==
    IF p.op \notin {None, "="}
    THEN Fatal("ParseError", [provides |-> p])
    ELSE [ok |-> TRUE, map |-> Put(result, p.name, p.ver)]

RECURSIVE ParseProvidesParts(_, _)
ParseProvidesParts(parts, parsed) ==
    IF ~parsed.ok \/ parts = <<>> THEN parsed
    ELSE ParseProvidesParts(Tail(parts), ParseProvidesPart(Head(parts), parsed.map))

_parse_provides_field(provides_val) ==
    ParseProvidesParts(provides_val, [ok |-> TRUE, map |-> <<>>])

IsArchChars(t) == t \notin {"A", "B", "/"}

RECURSIVE Join(_)
Join(tokens) == IF tokens = <<>> THEN "" ELSE Head(tokens) \o Join(Tail(tokens))

\* The places where r'(?:^|-)binary-([a-z0-9][a-z0-9+.-]*)$' matches in stem.
ArchMatches(stem) ==
    {i \in DOMAIN stem :
        /\ stem[i] = "binary"
        /\ i + 2 <= Len(stem)
        /\ stem[i + 1] = "-"
        /\ stem[i + 2] # "-"
        /\ \A j \in (i + 2)..Len(stem) : IsArchChars(stem[j])}

\* re.search returns the leftmost match; its group 1 is the architecture.
ArchOfMatches(stem, hits) ==
    IF hits = {} THEN Fatal("IndexStructural", [no_arch_in |-> stem])
    ELSE [ok |-> TRUE, arch |-> Join(SubSeq(stem, Min(hits) + 2, Len(stem)))]

_extract_target_arch_from_repo_filename(stem) == ArchOfMatches(stem, ArchMatches(stem))

\* The f-string of build_package_index over the results of its three rpartition('-').
HintOfParts(stem, p1, p2, p3) ==
    IF ~p1[2] \/ ~p2[2] \/ ~p3[2]
    THEN Fatal("IndexStructural", [bad_file_name |-> stem])
    ELSE [ok |-> TRUE,
          hint |-> p3[1] \o <<"/">> \o p3[3] \o <<"/">> \o p2[3] \o <<"/">> \o p1[3]]

Pre(stem) == RPartition(stem, "-")[1]

SourceHint(stem) ==
    HintOfParts(stem, RPartition(stem, "-"), RPartition(Pre(stem), "-"),
                RPartition(Pre(Pre(stem)), "-"))

\* Lines 336-341: register one record in both tables.
Register(record, idx) ==
    [ok |-> TRUE,
     pkgs_by_name |-> Put(idx.pkgs_by_name, record.name,
                          Append(Lookup(idx.pkgs_by_name, record.name, <<>>), record)),
     provides_index |-> [v \in (DOMAIN idx.provides_index) \cup (DOMAIN record.provides_map) |->
                            IF v \in DOMAIN record.provides_map
                            THEN Append(Lookup(idx.provides_index, v, <<>>), record)
                            ELSE idx.provides_index[v]],
     detected_arches |-> idx.detected_arches]

\* A scan without the check of the mandatory fields: the variant of ScanStanza
\* that C13_RecordsComplete has to tell from it.
ScanStanzaUnchecked(stanza, parsed, source_hint, idx) ==
    IF ~parsed.ok THEN parsed
    ELSE Register(PackageRecord(stanza.Package, stanza.Version, stanza.Architecture,
                                stanza.Filename, stanza.Depends, stanza.PreDepends,
                                parsed.map, source_hint),
                  idx)

\* Lines 300-341: one stanza, with its Provides field parsed.
ScanStanza(stanza, parsed, source_hint, idx) ==
    IF \/ stanza.Package = ""
       \/ stanza.Version = ""
       \/ stanza.Architecture = ""
       \/ stanza.Filename = <<>>
    THEN Fatal("IndexStructural", [malformed_stanza |-> stanza])
    ELSE IF ~parsed.ok THEN parsed
    ELSE Register(PackageRecord(stanza.Package, stanza.Version, stanza.Architecture,
                                stanza.Filename, stanza.Depends, stanza.PreDepends,
                                parsed.map, source_hint),
                  idx)

RECURSIVE ScanStanzas(_, _, _)
ScanStanzas(stanzas, source_hint, idx) ==
    IF ~idx.ok \/ stanzas = <<>> THEN idx
    ELSE ScanStanzas(Tail(stanzas), source_hint,
                     ScanStanza(Head(stanzas), _parse_provides_field(Head(stanzas).Provides),
                                source_hint, idx))

\* Lines 267-299: one index file, with its source hint and architecture derived.
ScanFile(f, h, a, idx) ==
    IF ~h.ok THEN h
    ELSE IF ~a.ok THEN a
    ELSE ScanStanzas(f.stanzas, h.hint,
                     [ok |-> TRUE, pkgs_by_name |-> idx.pkgs_by_name,
                      provides_index |-> idx.provides_index,
                      detected_arches |-> idx.detected_arches \cup {a.arch}])

RECURSIVE ScanFiles(_, _)
ScanFiles(text_files, idx) ==
    IF ~idx.ok \/ text_files = <<>> THEN idx
    ELSE ScanFiles(Tail(text_files),
                   ScanFile(Head(text_files), SourceHint(Head(text_files).stem),
                            _extract_target_arch_from_repo_filename(Head(text_files).stem),
                            idx))

\* A scan that takes some detected architecture without comparing them: the
\* variant of CheckArches that C12_OneTargetArch has to tell from it.
SomeArch(r) ==
    IF ~r.ok THEN r
    ELSE [ok |-> TRUE, pkgs_by_name |-> r.pkgs_by_name,
          provides_index |-> r.provides_index,
          target_arch |-> CHOOSE a \in r.detected_arches : TRUE]

\* Lines 347-362: the scan's result must name exactly one architecture.
CheckArches(r) ==
    IF ~r.ok THEN r
    ELSE IF Cardinality(r.detected_arches) # 1
    THEN Fatal("IndexStructural", [inconsistent_arches |-> r.detected_arches])
    ELSE [ok |-> TRUE, pkgs_by_name |-> r.pkgs_by_name,
          provides_index |-> r.provides_index,
          target_arch |-> CHOOSE a \in r.detected_arches : TRUE]

EmptyIndex ==
    [ok |-> TRUE, pkgs_by_name |-> <<>>, provides_index |-> <<>>, detected_arches |-> {}]

build_package_index(text_files) ==
    IF text_files = <<>>
    THEN Fatal("IndexStructural", [empty |-> TRUE])
    ELSE CheckArches(ScanFiles(text_files, EmptyIndex))

(***************************************************************************)
(* Version constraints.  A DepAtom is [name, arch_qual, op, ver,           *)
(* arch_list]; a dependency field is a list of groups, a group a list of   *)
(* atoms.                                                                  *)
(***************************************************************************)
DepAtom(name, arch_qual, op, ver, arch_list) ==
    [name |-> name, arch_qual |-> arch_qual, op |-> op, ver |-> ver,
     arch_list |-> arch_list]

_version_satisfies(candidate_version, op, needed_version) ==
    IF op = None \/ needed_version = None THEN TRUE
    ELSE CASE op = "=" -> VersionEq(candidate_version, needed_version)
           [] op = ">=" -> ~VersionLess(candidate_version, needed_version)
           [] op = "<=" -> ~VersionLess(needed_version, candidate_version)
           [] op = ">>" -> VersionLess(needed_version, candidate_version)
           [] op = "<<" -> VersionLess(candidate_version, needed_version)

\* A provider check that accepts every provider, whatever the versions: the
\* variant of DeclaredOrOwn that C3_VersionSatisfied has to tell from it.
AnyVersionProvides(declared_ver, own_version, op, needed_version) == TRUE

\* Lines 617-622: the declared Provides version if there is one, else the own version.
DeclaredOrOwn(declared_ver, own_version, op, needed_version) ==
    IF declared_ver # None /\ declared_ver # ""
    THEN _version_satisfies(declared_ver, op, needed_version)
    ELSE _version_satisfies(own_version, op, needed_version)

_provided_version_satisfies(provider_pkg, virtual_name, op, needed_version) ==
    IF op = None \/ needed_version = None THEN TRUE
    ELSE DeclaredOrOwn(Lookup(provider_pkg.provides_map, virtual_name, None),
                       provider_pkg.version, op, needed_version)

(***************************************************************************)
(* Resolver core.                                                          *)
(***************************************************************************)
\* A variant of _candidate_arches_for_atom in which an "all" record satisfies
\* every qualifier: C2_ResolvedArch has to tell it from the code's.
CandidateArchesWithAll(atom, arch) ==
    IF atom.arch_qual \in {None, "any", "native"} THEN {arch, "all"}
    ELSE {atom.arch_qual, "all"}

_candidate_arches_for_atom(atom, arch) ==
    LET q == atom.arch_qual
    IN  IF q = None THEN {arch, "all"}
        ELSE IF q = "any" THEN {arch, "all"}
        ELSE IF q = "native" THEN {arch, "all"}
        ELSE {q}

_arch_restriction_allows(atom, arch) ==
    IF atom.arch_list = <<>> THEN TRUE
    ELSE arch \in Range(atom.arch_list)

\* A sort key without source_hint: the variant of KeyLess that
\* C10_ScanOrderIndependent has to tell from it.
VersionOnlyLess(p, q) == VersionLess(p.version, q.version)

\* The sort key (Version(pkg.version), pkg.source_hint), compared as a tuple.
KeyLess(p, q) ==
    \/ VersionLess(p.version, q.version)
    \/ VersionEq(p.version, q.version) /\ StrLess(p.source_hint, q.source_hint)

\* sorted(..., reverse=True) is stable: equal keys keep their list order.
RECURSIVE InsertDescending(_, _)
InsertDescending(sorted, x) ==
    IF sorted = <<>> THEN <<x>>
    ELSE IF KeyLess(Head(sorted), x) THEN <<x>> \o sorted
    ELSE <<Head(sorted)>> \o InsertDescending(Tail(sorted), x)

RECURSIVE SortedDescending(_, _)
SortedDescending(candidates, acc) ==
    IF candidates = <<>> THEN acc
    ELSE SortedDescending(Tail(candidates), InsertDescending(acc, Head(candidates)))

\* A selection that takes the candidates in list order: the variant of
\* _select_best_candidate that C18_BestCandidate has to tell from it.
FirstCandidate(candidates) == candidates[1]

_select_best_candidate(candidates) == SortedDescending(candidates, <<>>)[1]

\* Step 3 of resolve_single_atom: the records of that name that pass both filters.
DirectMatches(atom, arch, byName) ==
    LET Keep(p) == /\ p.arch \in _candidate_arches_for_atom(atom, arch)
                   /\ _version_satisfies(p.version, atom.op, atom.ver)
    IN  SelectSeq(Lookup(byName, atom.name, <<>>), Keep)

\* Step 4 of resolve_single_atom: the providers of that name that pass both filters.
ProviderMatches(atom, arch, prov) ==
    LET Keep(p) == /\ p.arch \in _candidate_arches_for_atom(atom, arch)
                   /\ _provided_version_satisfies(p, atom.name, atom.op, atom.ver)
    IN  SelectSeq(Lookup(prov, atom.name, <<>>), Keep)

\* A resolver that prefers providers to records of the name asked for: the
\* variant of BestMatch that C16_DirectFirst has to tell from it.
ProvidersFirst(direct_matches, provider_matches) ==
    IF provider_matches # <<>> THEN _select_best_candidate(provider_matches)
    ELSE IF direct_matches # <<>> THEN _select_best_candidate(direct_matches)
    ELSE NoRecord

\* Lines 780-796: direct matches first, then providers, then None.
BestMatch(direct_matches, provider_matches) ==
    IF direct_matches # <<>> THEN _select_best_candidate(direct_matches)
    ELSE IF provider_matches # <<>> THEN _select_best_candidate(provider_matches)
    ELSE NoRecord

resolve_single_atom(atom, arch, byName, prov) ==
    IF ~_arch_restriction_allows(atom, arch) THEN NoRecord
    ELSE BestMatch(DirectMatches(atom, arch, byName), ProviderMatches(atom, arch, prov))

\* The description of one atom in the error of resolve_dep_alternatives.
HumanAlt(atom) ==
    <<atom.name>>
    \o (IF atom.arch_qual # None THEN <<":", atom.arch_qual>> ELSE <<>>)
    \o (IF atom.op # None /\ atom.ver # None THEN <<" (", atom.op, " ", atom.ver, ")">> ELSE <<>>)
    \o (IF atom.arch_list # <<>>
        THEN <<" [">> \o [i \in 1..(2 * Len(atom.arch_list) - 1) |->
                            IF i % 2 = 1 THEN atom.arch_list[(i + 1) \div 2] ELSE ", "]
             \o <<"]">>
        ELSE <<>>)

\* Lines 839-850: the four lines under "Reasons this may happen", the same for
\* every group.
UnsatisfiedReasons ==
    <<"only exists for a different architecture", "virtual and no provider for this arch",
      "version constraint could not be met", "index incomplete or mismatched">>

\* A search that ends at the first atom, resolved or not: the variant of
\* FirstResolved that C15_LeftmostResolvable has to tell from it.
HeadResolved(alt_group, found, arch, byName, prov) ==
    IF alt_group = <<>> THEN found
    ELSE resolve_single_atom(Head(alt_group), arch, byName, prov)

\* Lines 821-824: the first atom of the group, left to right, that resolves.
RECURSIVE FirstResolved(_, _, _, _, _)
FirstResolved(alt_group, found, arch, byName, prov) ==
    IF found # NoRecord \/ alt_group = <<>> THEN found
    ELSE FirstResolved(Tail(alt_group),
                       resolve_single_atom(Head(alt_group), arch, byName, prov),
                       arch, byName, prov)

\* Lines 826-850: the record found, or the error that enumerates the group.
ChosenOrRaise(p, alt_group) ==
    IF p # NoRecord THEN [ok |-> TRUE, pkg |-> p]
    ELSE Fatal("Unsatisfied",
               [human_alts |-> [i \in DOMAIN alt_group |-> HumanAlt(alt_group[i])],
                reasons |-> UnsatisfiedReasons])

resolve_dep_alternatives(alt_group, arch, byName, prov) ==
    ChosenOrRaise(FirstResolved(alt_group, NoRecord, arch, byName, prov), alt_group)

(***************************************************************************)
(* Artifact fetcher and closure walker.  A Filename and a base URL are     *)
(* token sequences.  A file of DOWNLOAD_DIR is [path, complete]: the       *)
(* relative path whose body it holds, and whether the body is all there    *)
(* (open(file_path, 'wb') leaves an empty file until write() has run).     *)
(* The .deb served for a relative path carries the control fields          *)
(* control[path].                                                          *)
(***************************************************************************)
Basename(filename) == RPartition(filename, "/")[3]

RECURSIVE LStripSlash(_)
LStripSlash(path) ==
    IF path # <<>> /\ Head(path) = "/" THEN LStripSlash(Tail(path)) ELSE path

RECURSIVE RStripSlash(_)
RStripSlash(base) ==
    IF base # <<>> /\ base[Len(base)] = "/"
    THEN RStripSlash(SubSeq(base, 1, Len(base) - 1))
    ELSE base

TryUrl(base, relative_path) == RStripSlash(base) \o <<"/">> \o relative_path

PkgKey(p) == <<p.name, p.version, p.arch>>

EmptyFile == [path |-> <<>>, complete |-> FALSE]

\* A walk that follows the dependencies of the index stanza: the variant of
\* ControlDeps that C21_ControlDataFollowed has to tell from it.
StanzaDeps(file) == pkg.pre_depends_raw \o pkg.depends_raw

\* The dependency groups _process_package_and_get_deps parses from a readable local file.
ControlDeps(file) == control[file.path].PreDepends \o control[file.path].Depends

\* A walk that pushes nothing for a group: the variant of PushOne that
\* C5_VisitedIsClosure has to tell from it.
PushNothing(chosen, alt_group, acc) == acc

\* Line 1056: push the record chosen for a group; the error of
\* resolve_dep_alternatives ends the loop.  alt_group is kept beside the
\* error's text for the properties that speak about the failing group.
PushOne(chosen, alt_group, acc) ==
    IF ~chosen.ok
    THEN [ok |-> FALSE,
          error |-> [kind |-> chosen.error.kind, detail |-> chosen.error.detail,
                     alt_group |-> alt_group]]
    ELSE [ok |-> TRUE, stack |-> Append(acc.stack, chosen.pkg)]

\* Lines 1049-1056: resolve each group in order and push the chosen record.
RECURSIVE PushChosen(_, _, _, _, _)
PushChosen(dep_groups, acc, arch, byName, prov) ==
    IF ~acc.ok \/ dep_groups = <<>> THEN acc
    ELSE PushChosen(Tail(dep_groups),
                    PushOne(resolve_dep_alternatives(Head(dep_groups), arch, byName, prov),
                            Head(dep_groups), acc),
                    arch, byName, prov)

\* The process ends: normally with exit code 0, by an uncaught exception or by
\* being killed with a non-zero one.  Its memory is gone, the disk stays.
Exit(end_pc, err) ==
    /\ pc' = end_pc
    /\ exit_code' = (IF end_pc = "done" THEN "zero" ELSE "nonzero")
    /\ error' = err
    /\ pkgs_by_name' = <<>>
    /\ provides_index' = <<>>
    /\ target_arch' = None
    /\ visited_filenames' = {}
    /\ stack' = <<>>
    /\ pkg' = NoRecord
    /\ urlIdx' = 0
    /\ response' = NoResponse

\* raise RuntimeError(...), which nothing catches.
Raise(err) == Exit("failed", err)

\* Lines 1086-1104: the index is built, or the process ends; then the command
\* line is checked.
Indexed(r) ==
    IF ~r.ok
    THEN Raise(r.error) /\ UNCHANGED <<visited_pkgkeys, pkgIdx>>
    ELSE IF base_urls = <<>>
    THEN Raise([kind |-> "Usage", detail |-> "base-url"])
         /\ UNCHANGED <<visited_pkgkeys, pkgIdx>>
    ELSE IF packages = <<>>
    THEN Raise([kind |-> "Usage", detail |-> "packages"])
         /\ UNCHANGED <<visited_pkgkeys, pkgIdx>>
    ELSE /\ pkgs_by_name' = r.pkgs_by_name
         /\ provides_index' = r.provides_index
         /\ target_arch' = r.target_arch
         /\ visited_filenames' = {}
         /\ visited_pkgkeys' = {}
         /\ pkgIdx' = 1
         /\ pc' = "toplevel"
         /\ UNCHANGED <<stack, pkg, urlIdx, response, exit_code, error>>

BuildIndex ==
    /\ pc = "start"
    /\ Indexed(build_package_index(repo))
    /\ UNCHANGED <<repo, packages, base_urls, control, disk, run, fetches, gets,
                   prev_exit, lastRes>>

\* A call that starts from empty visited sets of its own: the variant of
\* PassedSet that C22_SetsPerRun has to tell from it.
OwnSet(visited) == {}

\* Lines 1103-1117: the two sets are created once, before the loop over
\* args.packages, and every call of fetch_dependencies_recursive is handed
\* the same two objects.
PassedSet(visited) == visited

\* Lines 1019-1032: the top-level name resolved as a single atom.
WalkFrom(fake_atom, top_pkg) ==
    IF top_pkg = NoRecord
    THEN Raise([kind |-> "Unsatisfied", detail |-> [top_level |-> fake_atom]])
         /\ UNCHANGED <<visited_pkgkeys, pkgIdx>>
    ELSE /\ stack' = <<top_pkg>>
         /\ pc' = "walk"
         /\ visited_pkgkeys' = PassedSet(visited_pkgkeys)
         /\ visited_filenames' = PassedSet(visited_filenames)
         /\ UNCHANGED <<pkgs_by_name, provides_index, target_arch, pkgIdx, pkg, urlIdx,
                        response, exit_code, error>>

\* A loop that stops after the first top-level name: the variant of AllWalked
\* that C9_FailFast has to tell from it.
FirstWalked(i, names) == i > 1

\* Line 1107: the loop over args.packages has no name left.
AllWalked(i, names) == i > Len(names)

\* Lines 1107-1123: the next top-level name, or the end of the run.
StartWalk ==
    /\ pc = "toplevel"
    /\ IF AllWalked(pkgIdx, packages)
       THEN Exit("done", NoError) /\ UNCHANGED <<visited_pkgkeys, pkgIdx>>
       ELSE WalkFrom(packages[pkgIdx],
                     resolve_single_atom(packages[pkgIdx], target_arch, pkgs_by_name,
                                         provides_index))
    /\ UNCHANGED <<repo, packages, base_urls, control, disk, run, fetches, gets,
                   prev_exit, lastRes>>

\* A walk without the visited check: the variant of AlreadyVisited that
\* C4_TripleOnce has to tell from it.
NeverVisited(pkg_key, visited) == FALSE

\* Line 1038: the visited check of the walk.
AlreadyVisited(pkg_key, visited) == pkg_key \in visited

\* A fetcher without the existence check: the variant of LocalFileExists that
\* C6_RerunOffline has to tell from it.
NoLocalFile(file_name, dir) == FALSE

\* Line 912: os.path.isfile(file_path).
LocalFileExists(file_name, dir) == file_name \in DOMAIN dir

\* Lines 1037-1043 and 906-920: p has been popped; skip it if visited, else mark it
\* and enter _download_package_file.
Process(p) ==
    IF AlreadyVisited(PkgKey(p), visited_pkgkeys)
    THEN UNCHANGED <<pc, visited_pkgkeys, pkg, urlIdx, fetches, gets>>
    ELSE /\ visited_pkgkeys' = visited_pkgkeys \cup {PkgKey(p)}
         /\ pkg' = p
         /\ fetches' = Append(fetches, p)
         /\ gets' = <<>>
         /\ IF LocalFileExists(Basename(p.filename), disk)
            THEN pc' = "read_control" /\ urlIdx' = 0
            ELSE pc' = "get" /\ urlIdx' = 1

\* A loop that reads the top of the stack and leaves it there: the variant of
\* Popped that C19_WalkTerminates has to tell from it.
Peeked(s) == s

\* Line 1035: stack.pop() removes the last element.
Popped(s) == SubSeq(s, 1, Len(s) - 1)

\* Lines 1034-1036: pop the stack; an empty stack ends this top-level name.
Pop ==
    /\ pc = "walk"
    /\ IF stack = <<>>
       THEN /\ pkgIdx' = pkgIdx + 1
            /\ pc' = "toplevel"
            /\ UNCHANGED <<stack, visited_pkgkeys, pkg, urlIdx, fetches, gets>>
       ELSE /\ stack' = Popped(stack)
            /\ Process(stack[Len(stack)])
            /\ UNCHANGED pkgIdx
    /\ UNCHANGED <<repo, packages, base_urls, control, pkgs_by_name, provides_index,
                   target_arch, visited_filenames, response, disk, exit_code, error,
                   run, prev_exit, lastRes>>

\* A loop that asks the first base URL at every attempt: the variant of
\* CurrentUrl that C20_UrlsInOrder has to tell from it.
FirstUrl == TryUrl(base_urls[1], LStripSlash(pkg.filename))

\* Lines 918-923: the URL of the current attempt.
CurrentUrl == TryUrl(base_urls[urlIdx], LStripSlash(pkg.filename))

\* Lines 922-930: the GET of base_urls[urlIdx] answers 2xx.
GetOk ==
    /\ pc = "get"
    /\ gets' = Append(gets, [url |-> CurrentUrl, ok |-> TRUE])
    /\ response' = [path |-> LStripSlash(pkg.filename)]
    /\ pc' = "open"
    /\ UNCHANGED <<repo, packages, base_urls, control, pkgs_by_name, provides_index,
                   target_arch, visited_pkgkeys, visited_filenames, stack, pkgIdx, pkg,
                   urlIdx, disk, exit_code, error, run, fetches, prev_exit, lastRes>>

\* An error that names the base name instead of the relative path: the variant
\* of FetchFailure that C8_AllUrlsFailIsFatal has to tell from it.
FetchFailureOfName(p, urls) ==
    [kind |-> "FetchFailure",
     detail |-> [file_name |-> Basename(p.filename),
                 relative_path |-> Basename(p.filename),
                 base_urls |-> urls]]

\* Lines 935-942: the error raised when every base URL has failed.
FetchFailure(p, urls) ==
    [kind |-> "FetchFailure",
     detail |-> [file_name |-> Basename(p.filename),
                 relative_path |-> LStripSlash(p.filename),
                 base_urls |-> urls]]

\* Lines 931-942: the GET raises a RequestException; the next base URL is tried,
\* and after the last one the fetch is fatal.
GetFail ==
    /\ pc = "get"
    /\ gets' = Append(gets, [url |-> CurrentUrl, ok |-> FALSE])
    /\ IF urlIdx < Len(base_urls)
       THEN /\ urlIdx' = urlIdx + 1
            /\ UNCHANGED <<pc, pkgs_by_name, provides_index, target_arch,
                           visited_filenames, stack, pkg, response, exit_code, error>>
       ELSE Raise(FetchFailure(pkg, base_urls))
    /\ UNCHANGED <<repo, packages, base_urls, control, visited_pkgkeys, pkgIdx, disk,
                   run, fetches, prev_exit, lastRes>>

\* Line 927: open(file_path, 'wb') creates the file, empty.
Open ==
    /\ pc = "open"
    /\ disk' = Put(disk, Basename(pkg.filename), EmptyFile)
    /\ pc' = "write"
    /\ UNCHANGED <<repo, packages, base_urls, control, pkgs_by_name, provides_index,
                   target_arch, visited_pkgkeys, visited_filenames, stack, pkgIdx, pkg,
                   urlIdx, response, exit_code, error, run, fetches, gets, prev_exit,
                   lastRes>>

\* Lines 928-930: outf.write(response.content), and the file is closed.
Write ==
    /\ pc = "write"
    /\ disk' = Put(disk, Basename(pkg.filename), [path |-> response.path, complete |-> TRUE])
    /\ response' = NoResponse
    /\ pc' = "read_control"
    /\ UNCHANGED <<repo, packages, base_urls, control, pkgs_by_name, provides_index,
                   target_arch, visited_pkgkeys, visited_filenames, stack, pkgIdx, pkg,
                   urlIdx, exit_code, error, run, fetches, gets, prev_exit, lastRes>>

\* Lines 1046-1056: the dependency groups are resolved and pushed, or the first
\* unsatisfied group ends the process.
Pushed(r) ==
    IF ~r.ok THEN Raise(r.error)
    ELSE /\ visited_filenames' = visited_filenames \cup {pkg.filename}
         /\ stack' = r.stack
         /\ pc' = "walk"
         /\ UNCHANGED <<pkgs_by_name, provides_index, target_arch, pkg, urlIdx,
                        response, exit_code, error>>

\* Lines 971-984: DebFile reads the control data of the local file.
ReadFile(file) ==
    IF ~file.complete
    THEN Raise([kind |-> "ControlReadError", detail |-> PkgKey(pkg)])
    ELSE Pushed(PushChosen(ControlDeps(file), [ok |-> TRUE, stack |-> stack],
                           target_arch, pkgs_by_name, provides_index))

ReadControl ==
    /\ pc = "read_control"
    /\ ReadFile(disk[Basename(pkg.filename)])
    /\ UNCHANGED <<repo, packages, base_urls, control, visited_pkgkeys, pkgIdx, disk,
                   run, fetches, gets, prev_exit, lastRes>>

\* The process is killed or interrupted, at any step.
Abort ==
    /\ pc \in {"start", "toplevel", "walk", "get", "open", "write", "read_control"}
    /\ Exit("aborted", [kind |-> "Aborted"])
    /\ UNCHANGED <<repo, packages, base_urls, control, visited_pkgkeys, pkgIdx, disk,
                   run, fetches, gets, prev_exit, lastRes>>

\* The user runs the tool again: same index, same arguments, same download directory.
Rerun ==
    /\ pc \in {"done", "failed", "aborted"}
    /\ run < MaxRuns
    /\ run' = run + 1
    /\ prev_exit' = exit_code
    /\ pc' = "start"
    /\ exit_code' = "running"
    /\ error' = NoError
    /\ visited_pkgkeys' = {}
    /\ fetches' = <<>>
    /\ gets' = <<>>
    /\ pkgIdx' = 0
    /\ UNCHANGED <<repo, packages, base_urls, control, pkgs_by_name, provides_index,
                   target_arch, visited_filenames, stack, pkg, urlIdx, response, disk,
                   lastRes>>

(***************************************************************************)
(* Inputs.                                                                 *)
(***************************************************************************)
Stanza(Package, Ver, Architecture, Filename, Depends, PreDepends, Provides) ==
    [Package |-> Package, Version |-> Ver, Architecture |-> Architecture,
     Filename |-> Filename, Depends |-> Depends, PreDepends |-> PreDepends,
     Provides |-> Provides]

Atom(name) == DepAtom(name, None, None, None, <<>>)

StemA == <<"A", "-", "jammy", "-", "main", "-", "binary", "-", "arm64">>
StemB == <<"B", "-", "jammy", "-", "main", "-", "binary", "-", "arm64">>
StemAmd == <<"B", "-", "jammy", "-", "main", "-", "binary", "-", "amd64">>

PathA == <<"pool", "/", "a.deb">>
PathB == <<"pool", "/", "b.deb">>
PathC == <<"x", "/", "a.deb">>
PathD == <<"x", "/", "d.deb">>

ProvidesV == <<[name |-> "v", op |-> None, ver |-> None]>>

\* The stanzas of the walker's indexes.  StC's Filename has a leading slash and
\* the basename of StA's; StD has the triple of StA, another Filename and no
\* Provides; StBad lacks its Version.
StA == Stanza("a", "1.0", "arm64", PathA, <<<<Atom("b")>>>>, <<>>, ProvidesV)
StB == Stanza("b", "1.0", "all", PathB, <<>>, <<>>, <<>>)
StC == Stanza("c", "2.0", "arm64", <<"/">> \o PathC, <<>>, <<>>, <<>>)
StD == Stanza("a", "1.0", "arm64", PathD, <<>>, <<>>, <<>>)
StBad == Stanza("b", "", "all", PathB, <<>>, <<>>, <<>>)

\* Stanzas that lack Package, Architecture, Filename.
StNoName == Stanza("", "1.0", "all", PathB, <<>>, <<>>, <<>>)
StNoArch == Stanza("b", "1.0", "", PathB, <<>>, <<>>, <<>>)
StNoFile == Stanza("b", "1.0", "all", <<>>, <<>>, <<>>, <<>>)

File(stem, stanzas) == [stem |-> stem, stanzas |-> stanzas]

WalkRepos ==
    { <<File(StemA, <<StA, StB>>)>>,
      <<File(StemA, <<StA, StB>>), File(StemB, <<StC>>)>>,
      <<File(StemA, <<StA, StB>>), File(StemB, <<StD>>)>>,
      <<File(StemA, <<StA, StB>>), File(StemAmd, <<StC>>)>>,
      <<File(StemA, <<StA, StBad>>)>>,
      <<File(StemA, <<StA, StNoName>>)>>,
      <<File(StemA, <<StA, StNoArch>>)>>,
      <<File(StemA, <<StA, StNoFile>>)>> }

Fields(PreDepends, Depends) == [PreDepends |-> PreDepends, Depends |-> Depends]

NoDeps == Fields(<<>>, <<>>)

\* What the .deb of each relative path may declare.
ControlChoices(path) ==
    CASE path = PathA ->
            { NoDeps,
              Fields(<<>>, <<<<Atom("b")>>>>),
              Fields(<<<<Atom("v")>>>>, <<<<Atom("b")>>, <<Atom("b")>>>>),
              Fields(<<>>, <<<<DepAtom("b", None, None, None, <<"amd64", "i386">>)>>>>),
              Fields(<<>>, <<<<Atom("x"), Atom("b")>>>>),
              Fields(<<>>, <<<<Atom("x")>>>>) }
      [] path = PathB ->
            { NoDeps, Fields(<<>>, <<<<Atom("a")>>, <<Atom("v")>>>>) }
      [] path = PathC ->
            { NoDeps, Fields(<<>>, <<<<Atom("b")>>>>) }
      [] path = PathD ->
            { NoDeps, Fields(<<>>, <<<<Atom("c")>>>>) }

AllPaths == {PathA, PathB, PathC, PathD}

PathsOf(files) ==
    UNION {{LStripSlash(files[i].stanzas[j].Filename) : j \in DOMAIN files[i].stanzas} :
           i \in DOMAIN files}

Mirrors == <<<<"m1", "/">>, <<"m2">>, <<"m3">>, <<"m4">>>>

TopAtoms == {Atom("a"), Atom("v"), Atom("c")}

(***************************************************************************)
(* The program: one invocation after another against one download          *)
(* directory, which is empty at first.                                     *)
(***************************************************************************)
ProcessStart ==
    /\ pc = "start"
    /\ pkgs_by_name = <<>>
    /\ provides_index = <<>>
    /\ target_arch = None
    /\ visited_pkgkeys = {}
    /\ visited_filenames = {}
    /\ stack = <<>>
    /\ pkgIdx = 0
    /\ pkg = NoRecord
    /\ urlIdx = 0
    /\ response = NoResponse
    /\ exit_code = "running"
    /\ error = NoError
    /\ fetches = <<>>
    /\ gets = <<>>

\* The control data of the .deb files that the index files name.
ControlsOf(files) ==
    {c \in [AllPaths -> UNION {ControlChoices(q) : q \in AllPaths}] :
        \A q \in AllPaths :
            c[q] \in (IF q \in PathsOf(files) THEN ControlChoices(q) ELSE {NoDeps})}

Init ==
    /\ repo \in WalkRepos
    /\ packages \in SeqsUpTo(TopAtoms, MaxPackages)
    /\ base_urls \in {SubSeq(Mirrors, 1, k) : k \in 0..MaxUrls}
    /\ control \in ControlsOf(repo)
    /\ ProcessStart
    /\ disk = <<>>
    /\ run = 1
    /\ prev_exit = None
    /\ lastRes = NoCall

Next ==
    \/ BuildIndex
    \/ StartWalk
    \/ Pop
    \/ GetOk
    \/ GetFail
    \/ Open
    \/ Write
    \/ ReadControl
    \/ Abort
    \/ Rerun

Spec == Init /\ [][Next]_vars

(***************************************************************************)
(* The resolver on its own: an index of at most MaxStanzas stanzas in one  *)
(* or two files of the target architecture, listed in either order, and    *)
(* one call of resolve_single_atom or resolve_dep_alternatives on it.      *)
(***************************************************************************)
ProvidesV2 == <<[name |-> "v", op |-> "=", ver |-> "2.0"]>>

\* "Provides: v (= 1.0), v (= 2.0)": one virtual name declared at two versions.
ProvidesV1V2 == <<[name |-> "v", op |-> "=", ver |-> "1.0"],
                  [name |-> "v", op |-> "=", ver |-> "2.0"]>>

ResolveStanzas ==
    {Stanza("a", ver, "arm64", PathA, <<>>, <<>>, <<>>) : ver \in Versions}
    \cup { Stanza("a", "1.0", "arm64", PathA, <<>>, <<>>, ProvidesV2),
           Stanza("a", "1.0", "arm64", PathA, <<>>, <<>>, ProvidesV1V2),
           Stanza("a", "2.0", "arm64", PathA, <<>>, <<>>, ProvidesV),
           Stanza("a", "2.0", "all", PathB, <<>>, <<>>, <<>>),
           Stanza("a", "1.0", "all", PathB, <<>>, <<>>, ProvidesV),
           Stanza("a", "2.0", "amd64", PathC, <<>>, <<>>, <<>>),
           Stanza("v", "1.0", "arm64", PathD, <<>>, <<>>, <<>>) }

StemPairs == {<<StemA, StemB>>, <<StemB, StemA>>}

\* One file, or the same stanzas cut in two files, scanned in either order.
ResolveRepos ==
    UNION {{<<File(StemA, all)>>}
           \cup {<<File(st[1], SubSeq(all, 1, k)), File(st[2], SubSeq(all, k + 1, Len(all)))>> :
                    k \in 1..(Len(all) - 1), st \in StemPairs} :
           all \in SeqsUpTo(ResolveStanzas, MaxStanzas) \ {<<>>}}

Constraints ==
    {<<None, None>>, <<"=", "1.0">>, <<">=", "2.0">>, <<"<<", "2.0">>, <<">>", "1.0">>,
     <<"<=", "1.0-0">>}

ResolveAtoms ==
    {DepAtom(n, None, c[1], c[2], <<>>) : n \in {"a", "v"}, c \in Constraints}
    \cup {DepAtom(n, q, None, None, <<>>) :
            n \in {"a", "v"}, q \in {"any", "native", "arm64", "amd64", "all"}}
    \cup {DepAtom("a", q, ">=", "2.0", <<>>) : q \in {"any", "arm64"}}
    \cup {DepAtom(n, None, None, None, al) :
            n \in {"a", "v"}, al \in {<<"amd64", "i386">>, <<"arm64">>}}

ResolveGroups ==
    { <<Atom("x")>>,
      <<Atom("x"), Atom("a")>>,
      <<Atom("a"), Atom("x")>>,
      <<Atom("a"), Atom("v")>>,
      <<DepAtom("a", None, None, None, <<"amd64", "i386">>), Atom("v"), Atom("a")>>,
      <<DepAtom("v", None, ">=", "2.0", <<>>), Atom("a")>>,
      <<DepAtom("a", "amd64", None, None, <<>>), DepAtom("v", "all", None, None, <<>>)>>,
      <<DepAtom("a", None, None, None, <<"amd64", "i386">>),
        DepAtom("v", None, None, None, <<"amd64">>)>> }

InitResolve ==
    /\ repo \in ResolveRepos
    /\ packages = <<>>
    /\ base_urls = <<>>
    /\ control = [q \in AllPaths |-> NoDeps]
    /\ ProcessStart
    /\ disk = <<>>
    /\ run = 1
    /\ prev_exit = None
    /\ lastRes = NoCall

\* The call's outcome: the record, or None; and the error of a group left unsatisfied.
Called(call, atoms, r) ==
    /\ lastRes' = [call |-> call, atoms |-> atoms,
                   result |-> IF r.ok THEN r.pkg ELSE NoRecord,
                   error |-> IF r.ok THEN NoError ELSE r.error]
    /\ UNCHANGED <<repo, packages, base_urls, control, pc, pkgs_by_name, provides_index,
                   target_arch, visited_pkgkeys, visited_filenames, stack, pkgIdx, pkg,
                   urlIdx, response, disk, exit_code, error, run, fetches, gets,
                   prev_exit>>

AtomCall(atom, idx) ==
    /\ idx.ok
    /\ Called("atom", <<atom>>,
              [ok |-> TRUE,
               pkg |-> resolve_single_atom(atom, idx.target_arch, idx.pkgs_by_name,
                                           idx.provides_index)])

GroupCall(alt_group, idx) ==
    /\ idx.ok
    /\ Called("group", alt_group,
              resolve_dep_alternatives(alt_group, idx.target_arch, idx.pkgs_by_name,
                                       idx.provides_index))

ResolveAtom ==
    /\ lastRes = NoCall
    /\ \E atom \in ResolveAtoms : AtomCall(atom, build_package_index(repo))

ResolveGroup ==
    /\ lastRes = NoCall
    /\ \E alt_group \in ResolveGroups : GroupCall(alt_group, build_package_index(repo))

NextResolve ==
    \/ ResolveAtom
    \/ ResolveGroup

SpecResolve == InitResolve /\ [][NextResolve]_vars

(***************************************************************************)
(* Dependency-expression parser.  The text of one alternative is a         *)
(* sequence of tokens separated by blanks: a name, ":", a qualifier, "(",  *)
(* an operator, a version, ")", "[", architectures, "]", and "<p>" for a   *)
(* build-profile annotation such as <!nocheck>.                            *)
(***************************************************************************)
RECURSIVE JoinBlank(_)
\* The text of a token sequence. Tokens stand one blank apart; how many blanks
\* the source text has between two tokens is not modelled.
JoinBlank(tokens) ==
    IF tokens = <<>> THEN ""
    ELSE IF Len(tokens) = 1 THEN tokens[1]
    ELSE tokens[1] \o " " \o JoinBlank(Tail(tokens))

\* work[:m.start()] + work[m.end():]
Without(work, first, last) == SubSeq(work, 1, first - 1) \o SubSeq(work, last + 1, Len(work))

\* Where re.search(open + '([^' + close + ']+)' + close) matches in work: an open
\* token, one token or more that are not the close token, the close token.
BlockStarts(work, open, close) ==
    {i \in DOMAIN work :
        /\ work[i] = open
        /\ i + 1 <= Len(work)
        /\ work[i + 1] # close
        /\ \E j \in (i + 2)..Len(work) : work[j] = close}

BlockEnd(work, first, close) == Min({j \in (first + 1)..Len(work) : work[j] = close})

\* r'^[a-z0-9][a-z0-9+.-]*$' on the text of base: one token, and a name.
IsPackageName(base) ==
    /\ Len(base) = 1
    /\ base[1] \notin {":", "(", ")", "[", "]", "<p>", ">=", "<=", "=", ">>", "<<", "~"}

\* Lines 536-551: the name is checked, the atom built.
NamedAtom(atom_raw, base_name, arch_qual, op, ver, arch_list) ==
    IF ~IsPackageName(base_name)
    THEN Fatal("ParseError", [suspicious_name |-> base_name, atom |-> atom_raw])
    ELSE [ok |-> TRUE, atom |-> DepAtom(base_name[1], arch_qual, op, ver, arch_list)]

\* Lines 520-533: work.split(':', 1) cuts at the first colon; what follows it is
\* the qualifier, whatever it is.
SplitQualifier(atom_raw, work, colons, op, ver, arch_list) ==
    IF colons = {}
    THEN NamedAtom(atom_raw, work, None, op, ver, arch_list)
    ELSE IF Min(colons) = 1
    THEN Fatal("ParseError", [empty_name |-> atom_raw])
    ELSE IF Min(colons) = Len(work)
    THEN Fatal("ParseError", [empty_qualifier |-> atom_raw])
    ELSE NamedAtom(atom_raw, SubSeq(work, 1, Min(colons) - 1),
                   JoinBlank(SubSeq(work, Min(colons) + 1, Len(work))), op, ver, arch_list)

\* Lines 512-518: what is left is "name" or "name:qual".
ParseName(atom_raw, work, op, ver, arch_list) ==
    IF work = <<>>
    THEN Fatal("ParseError", [lost_name |-> atom_raw])
    ELSE SplitQualifier(atom_raw, work, {i \in DOMAIN work : work[i] = ":"}, op, ver,
                        arch_list)

\* Lines 493-510: the text between the parentheses is "<op> <ver>".
ParseConstraint(atom_raw, work, first, last, arch_list) ==
    IF last - first - 1 < 2
    THEN Fatal("ParseError", [constraint |-> SubSeq(work, first + 1, last - 1)])
    ELSE IF work[first + 1] \notin {">=", "<=", "=", ">>", "<<"}
    THEN Fatal("ParseError", [operator |-> work[first + 1]])
    ELSE ParseName(atom_raw, Without(work, first, last), work[first + 1],
                   JoinBlank(SubSeq(work, first + 2, last - 1)), arch_list)

\* Lines 489-492: the first (...) block, if there is one.
ParseVersion(atom_raw, work, starts, arch_list) ==
    IF starts = {}
    THEN ParseName(atom_raw, work, None, None, arch_list)
    ELSE ParseConstraint(atom_raw, work, Min(starts), BlockEnd(work, Min(starts), ")"),
                         arch_list)

\* Lines 481-487: the first [...] block, if there is one, is the arch list.
ParseArchList(atom_raw, work, starts) ==
    IF starts = {}
    THEN ParseVersion(atom_raw, work, BlockStarts(work, "(", ")"), <<>>)
    ELSE ParseVersion(atom_raw,
                      Without(work, Min(starts), BlockEnd(work, Min(starts), "]")),
                      BlockStarts(Without(work, Min(starts), BlockEnd(work, Min(starts), "]")),
                                  "(", ")"),
                      SubSeq(work, Min(starts) + 1, BlockEnd(work, Min(starts), "]") - 1))

_parse_single_dep_atom(atom_raw) ==
    ParseArchList(atom_raw, atom_raw, BlockStarts(atom_raw, "[", "]"))

\* Lines 438-444 of parse_dep_field: the alternatives of one comma group, in order;
\* the first one that does not parse ends the run.
RECURSIVE ParseAlternatives(_, _)
ParseAlternatives(alts_raw, acc) ==
    IF ~acc.ok \/ alts_raw = <<>> THEN acc
    ELSE ParseAlternatives(Tail(alts_raw),
                           IF _parse_single_dep_atom(Head(alts_raw)).ok
                           THEN [ok |-> TRUE,
                                 atoms |-> Append(acc.atoms,
                                                  _parse_single_dep_atom(Head(alts_raw)).atom)]
                           ELSE _parse_single_dep_atom(Head(alts_raw)))

(***************************************************************************)
(* The parser on its own, and in front of the resolver: one alternative is *)
(* parsed, or the alternatives of one group are parsed and the group       *)
(* resolved on the index of one file.                                      *)
(***************************************************************************)
Profile == <<"<p>">>

Qualifiers == {<<>>, <<":", "any">>, <<":", "arm64">>}

VersionBlocks == {<<>>, <<"(", ">=", "2.0", ")">>, <<"(", "=", "1.0", ")">>}

ArchLists == {<<>>, <<"[", "arm64", "]">>, <<"[", "amd64", "i386", "]">>}

\* name[:qual] [(op ver)] [[archlist]] with "<p>" at none or one of the four places.
RawAtomsOf(n) ==
    UNION {{ <<n>> \o q \o c \o l,
             <<n>> \o Profile \o q \o c \o l,
             <<n>> \o q \o Profile \o c \o l,
             <<n>> \o q \o c \o Profile \o l,
             <<n>> \o q \o c \o l \o Profile } :
           q \in Qualifiers, c \in VersionBlocks, l \in ArchLists}

BadAtoms ==
    { <<"a", "(", "2.0", ")">>, <<"a", "(", "~", "2.0", ")">>, <<"a", ":">>,
      <<":", "any">>, <<"(", ">=", "2.0", ")">>, <<"a", "b">> }

RawAtoms == RawAtomsOf("a") \cup RawAtomsOf("v") \cup BadAtoms

RawGroups ==
    {<<first, <<"b">>>> : first \in RawAtomsOf("a") \cup RawAtomsOf("x")}

ParseRepos == {<<File(StemA, <<StA, StB>>)>>, <<File(StemA, <<StB>>)>>}

InitParse ==
    /\ repo \in ParseRepos
    /\ packages = <<>>
    /\ base_urls = <<>>
    /\ control = [q \in AllPaths |-> NoDeps]
    /\ ProcessStart
    /\ disk = <<>>
    /\ run = 1
    /\ prev_exit = None
    /\ lastRes = NoCall

\* The outcome of a call on text: what was parsed, and what it resolved to.
Parsed(call, raw, atoms, r) ==
    /\ lastRes' = [call |-> call, raw |-> raw, atoms |-> atoms,
                   result |-> IF r.ok THEN r.pkg ELSE NoRecord,
                   error |-> IF r.ok THEN NoError ELSE r.error]
    /\ UNCHANGED <<repo, packages, base_urls, control, pc, pkgs_by_name, provides_index,
                   target_arch, visited_pkgkeys, visited_filenames, stack, pkgIdx, pkg,
                   urlIdx, response, disk, exit_code, error, run, fetches, gets,
                   prev_exit>>

AtomParsed(atom_raw, r) ==
    IF r.ok THEN Parsed("parse_atom", <<atom_raw>>, <<r.atom>>, [ok |-> TRUE, pkg |-> NoRecord])
    ELSE Parsed("parse_atom", <<atom_raw>>, <<>>, r)

GroupParsed(alts_raw, r, idx) ==
    /\ idx.ok
    /\ IF r.ok
       THEN Parsed("parse_group", alts_raw, r.atoms,
                   resolve_dep_alternatives(r.atoms, idx.target_arch, idx.pkgs_by_name,
                                            idx.provides_index))
       ELSE Parsed("parse_group", alts_raw, <<>>, r)

ParseAtom ==
    /\ lastRes = NoCall
    /\ \E atom_raw \in RawAtoms : AtomParsed(atom_raw, _parse_single_dep_atom(atom_raw))

ParseGroup ==
    /\ lastRes = NoCall
    /\ \E alts_raw \in RawGroups :
           GroupParsed(alts_raw, ParseAlternatives(alts_raw, [ok |-> TRUE, atoms |-> <<>>]),
                       build_package_index(repo))

NextParse ==
    \/ ParseAtom
    \/ ParseGroup

SpecParse == InitParse /\ [][NextParse]_vars

(***************************************************************************)
(* Properties.  The index of the run is recomputed from repo, since a      *)
(* process that has ended has lost its tables.                             *)
(***************************************************************************)
Index == build_package_index(repo)

Last(s) == s[Len(s)]

Reverse(s) == [i \in 1..Len(s) |-> s[Len(s) + 1 - i]]

\* One step of one invocation: every action of the tool itself.
ProcessStep ==
    \/ BuildIndex
    \/ StartWalk
    \/ Pop
    \/ GetOk
    \/ GetFail
    \/ Open
    \/ Write
    \/ ReadControl

\* The dependency groups the walk read for record r: those of the control data of
\* the local file at basename(r.filename).
DepsRead(r) ==
    IF Basename(r.filename) \in DOMAIN disk /\ disk[Basename(r.filename)].complete
    THEN ControlDeps(disk[Basename(r.filename)])
    ELSE <<>>

\* The record each top-level name resolves to, and the record chosen for a group.
Root(i, idx) ==
    resolve_single_atom(packages[i], idx.target_arch, idx.pkgs_by_name, idx.provides_index)

ChosenFor(alt_group, idx) ==
    FirstResolved(alt_group, NoRecord, idx.target_arch, idx.pkgs_by_name,
                  idx.provides_index)

\* C1: a dependency group whose atoms are all not applicable on the target
\* architecture (each has a non-empty arch_list without target_arch) raises no
\* error: whenever the walk has ended with the error of an unsatisfied group, some
\* atom of that group is applicable.
C1_NotApplicableGroupIsAbsent ==
    (pc = "failed" /\ error.kind = "Unsatisfied" /\ "alt_group" \in DOMAIN error)
        => \E i \in DOMAIN error.alt_group :
               _arch_restriction_allows(error.alt_group[i], Index.target_arch)

ArchAllowed(atom, record, arch) ==
    IF atom.arch_qual \in {None, "any", "native"}
    THEN record.arch \in {arch, "all"}
    ELSE record.arch = atom.arch_qual

\* C2: a record returned by resolve_single_atom or resolve_dep_alternatives on
\* target architecture T has arch in {T, "all"} when the requesting atom has no
\* qualifier, :any or :native, and arch equal to the qualifier when the atom
\* carries a literal one.
C2_ResolvedArch ==
    (lastRes.call # "none" /\ lastRes.result # NoRecord)
        => \E i \in DOMAIN lastRes.atoms :
               /\ ArchAllowed(lastRes.atoms[i], lastRes.result, Index.target_arch)
               /\ \A j \in 1..(i - 1) : ChosenFor(<<lastRes.atoms[j]>>, Index) = NoRecord

\* pkg:arm64 with an "all" record of a newer version in the index: the arm64 record
\* is returned.
C2_Witness ==
    /\ lastRes.call = "atom"
    /\ lastRes.atoms[1].name = "a"
    /\ lastRes.atoms[1].arch_qual = "arm64"
    /\ lastRes.result # NoRecord
    /\ lastRes.result.arch = "arm64"
    /\ \E r \in Range(Lookup(Index.pkgs_by_name, "a", <<>>)) :
           r.arch = "all" /\ VersionLess(lastRes.result.version, r.version)

Declared(record, name) == Lookup(record.provides_map, name, None)

VersionAllowed(atom, record) ==
    \/ atom.op = None
    \/ atom.ver = None
    \/ _version_satisfies(record.version, atom.op, atom.ver)
    \/ /\ atom.name \in DOMAIN record.provides_map
       /\ Declared(record, atom.name) \notin {None, ""}
       /\ _version_satisfies(Declared(record, atom.name), atom.op, atom.ver)
    \/ /\ atom.name \in DOMAIN record.provides_map
       /\ Declared(record, atom.name) \in {None, ""}
       /\ _version_satisfies(record.version, atom.op, atom.ver)

\* C3: a record chosen for an atom with a version constraint (op, ver) has an own
\* version that satisfies it, or provides the atom's name with a declared version
\* that satisfies it, or provides the name without a version and has an own version
\* that satisfies it.
C3_VersionSatisfied ==
    (lastRes.call # "none" /\ lastRes.result # NoRecord)
        => \E i \in DOMAIN lastRes.atoms :
               /\ VersionAllowed(lastRes.atoms[i], lastRes.result)
               /\ \A j \in 1..(i - 1) : ChosenFor(<<lastRes.atoms[j]>>, Index) = NoRecord

\* v (>= 2.0) is satisfied by a 1.0 that provides v (= 2.0): by the declared version
\* alone.
C3_Witness ==
    /\ lastRes.call = "atom"
    /\ lastRes.atoms[1].name = "v"
    /\ lastRes.atoms[1].op = ">="
    /\ lastRes.atoms[1].ver = "2.0"
    /\ lastRes.result # NoRecord
    /\ lastRes.result.name = "a"
    /\ lastRes.result.version = "1.0"
    /\ Declared(lastRes.result, "v") = "2.0"

\* C4: within one run the fetch-and-read-dependencies step is executed at most once
\* per (name, version, arch) triple, and the triples marked visited are those of
\* the records it was executed for: a popped record of a visited triple is skipped.
C4_TripleOnce ==
    /\ \A i, j \in DOMAIN fetches : PkgKey(fetches[i]) = PkgKey(fetches[j]) => i = j
    /\ visited_pkgkeys = {PkgKey(fetches[i]) : i \in DOMAIN fetches}

\* A run has finished in which a Pre-Depends on v (which a provides), b twice, and
\* b's dependencies on a and v were all walked: two records were processed.
C4_Witness ==
    /\ pc = "done"
    /\ control[PathA] = Fields(<<<<Atom("v")>>>>, <<<<Atom("b")>>, <<Atom("b")>>>>)
    /\ control[PathB] = Fields(<<>>, <<<<Atom("a")>>, <<Atom("v")>>>>)
    /\ Len(packages) = 2
    /\ Len(fetches) = 2

\* The triples of the records chosen for the groups read for record r.
EdgeKeys(r, idx) ==
    {PkgKey(c) : c \in {ChosenFor(DepsRead(r)[g], idx) : g \in DOMAIN DepsRead(r)} \ {NoRecord}}

RootKeys(idx) == {PkgKey(c) : c \in {Root(i, idx) : i \in DOMAIN packages} \ {NoRecord}}

\* The triples reachable from the roots through the chosen edges of the records the
\* walk processed: the least set that holds RootKeys and is closed under EdgeKeys.
RECURSIVE Reach(_, _, _)
Reach(prev, cur, idx) ==
    IF prev = cur THEN cur
    ELSE Reach(cur,
               cur \cup UNION {EdgeKeys(fetches[i], idx) :
                                 i \in {j \in DOMAIN fetches : PkgKey(fetches[j]) \in cur}},
               idx)

C6_RerunOffline ==
    (run > 1 /\ prev_exit = "zero")
        => (gets = <<>> /\ pc \notin {"get", "open", "write", "failed"})

\* The second invocation has finished successfully after walking two records or more.
C6_Witness ==
    /\ run = 2
    /\ prev_exit = "zero"
    /\ pc = "done"
    /\ Len(fetches) >= 2

\* C7: the artifact write is atomic with respect to abort: whenever no write is in
\* progress, and so after an abort at any step of a fetch, every file present in
\* DOWNLOAD_DIR holds the complete body of a successful response.
C7_WriteAtomic ==
    pc # "write" => \A f \in DOMAIN disk : disk[f].complete

AllUrlsFailed ==
    /\ gets # <<>>
    /\ Len(gets) = Len(base_urls)
    /\ \A i \in DOMAIN gets : ~gets[i].ok

\* C8: when the GET has failed for every base URL of one artifact, the process has
\* ended with a fatal error that names the relative path and all base URLs, which
\* are the ones that were tried, in order; no step of the run is possible any more.
C8_AllUrlsFailIsFatal ==
    AllUrlsFailed =>
        /\ pc = "failed"
        /\ exit_code = "nonzero"
        /\ error.kind = "FetchFailure"
        /\ error.detail.relative_path = LStripSlash(Last(fetches).filename)
        /\ error.detail.base_urls = base_urls
        /\ \A i \in DOMAIN gets :
               gets[i].url = TryUrl(base_urls[i], LStripSlash(Last(fetches).filename))
        /\ ~ENABLED ProcessStep

\* Two base URLs have failed for the second record of a walk.
C8_Witness ==
    /\ AllUrlsFailed
    /\ Len(base_urls) = 2
    /\ Len(fetches) = 2
    /\ pc = "failed"

\* Every top-level name resolved, and every record processed has a complete local
\* file and, for each group read from it, a chosen record that was visited.
WalkComplete(idx) ==
    /\ \A i \in DOMAIN packages :
           Root(i, idx) # NoRecord /\ PkgKey(Root(i, idx)) \in visited_pkgkeys
    /\ \A j \in DOMAIN fetches :
           /\ Basename(fetches[j].filename) \in DOMAIN disk
           /\ disk[Basename(fetches[j].filename)].complete
           /\ \A g \in DOMAIN DepsRead(fetches[j]) :
                  /\ ChosenFor(DepsRead(fetches[j])[g], idx) # NoRecord
                  /\ PkgKey(ChosenFor(DepsRead(fetches[j])[g], idx)) \in visited_pkgkeys

Outcome(call, atoms, idx) ==
    IF call = "atom"
    THEN resolve_single_atom(atoms[1], idx.target_arch, idx.pkgs_by_name, idx.provides_index)
    ELSE ChosenFor(atoms, idx)

\* C10: for a fixed set of index files every atom and every group resolves to the
\* same record whatever the order in which build_package_index lists and scans the
\* files (an index has at most two files here, so the other order is the reverse).
C10_ScanOrderIndependent ==
    lastRes.call # "none"
        => lastRes.result = Outcome(lastRes.call, lastRes.atoms,
                                    build_package_index(Reverse(repo)))

\* Two files hold records of a of equal Version; the one of the file scanned second
\* is chosen, by its greater source_hint.
C10_Witness ==
    /\ lastRes.call = "atom"
    /\ lastRes.atoms[1] = Atom("a")
    /\ Len(repo) = 2
    /\ repo[1].stem = StemA
    /\ repo[1].stanzas[1].Package = "a"
    /\ repo[1].stanzas[1].Architecture = "arm64"
    /\ lastRes.result # NoRecord
    /\ VersionEq(repo[1].stanzas[1].Version, lastRes.result.version)
    /\ lastRes.result.source_hint = SourceHint(StemB).hint

\* Why atom does not resolve on index idx, in the words of the specification.
ReasonFor(atom, idx) ==
    IF ~_arch_restriction_allows(atom, idx.target_arch) THEN "not applicable"
    ELSE IF atom.name \notin (DOMAIN idx.pkgs_by_name) \cup (DOMAIN idx.provides_index)
    THEN "not in index"
    ELSE IF \A r \in Range(Lookup(idx.pkgs_by_name, atom.name, <<>>))
                      \cup Range(Lookup(idx.provides_index, atom.name, <<>>)) :
                r.arch \notin _candidate_arches_for_atom(atom, idx.target_arch)
    THEN "only other arches"
    ELSE "version constraint unmet"

\* C11: when no atom of a group resolves, the fatal error enumerates every atom of
\* the group and gives, atom by atom, the reason that applies to that atom.
C11_PerAtomReasons ==
    (lastRes.call = "group" /\ lastRes.result = NoRecord)
        => /\ lastRes.error.kind = "Unsatisfied"
           /\ lastRes.error.detail.human_alts =
                  [i \in DOMAIN lastRes.atoms |-> HumanAlt(lastRes.atoms[i])]
           /\ lastRes.error.detail.reasons =
                  [i \in DOMAIN lastRes.atoms |-> ReasonFor(lastRes.atoms[i], Index)]

\* The architecture each index file name yields.
FileArch(i) == _extract_target_arch_from_repo_filename(repo[i].stem)

FileArches == [i \in DOMAIN repo |-> FileArch(i)]

Differ(arches) ==
    \E i, j \in DOMAIN arches : arches[i].ok /\ arches[j].ok /\ arches[i].arch # arches[j].arch

ArchesDiffer == Differ(FileArches)

AllYield(arches, arch) == \A i \in DOMAIN arches : arches[i].ok /\ arches[i].arch = arch

\* C12: the run gets past build_package_index only when every index file name
\* yields the same architecture, which is target_arch; when two files yield
\* different ones the process fails there, and no top-level name is resolved and no
\* artifact fetched, in this invocation or a later one.
C12_OneTargetArch ==
    /\ pc \in {"toplevel", "walk", "get", "open", "write", "read_control"}
           => AllYield(FileArches, target_arch)
    /\ ArchesDiffer
           => /\ pc \in {"start", "failed", "aborted"}
              /\ pc = "failed" => error.kind = "IndexStructural"
              /\ stack = <<>>
              /\ fetches = <<>>
              /\ gets = <<>>
              /\ disk = <<>>

\* An arm64 file and an amd64 file: the index build has failed on the two
\* architectures.
C12_Witness ==
    /\ ArchesDiffer
    /\ pc = "failed"
    /\ error.kind = "IndexStructural"
    /\ "inconsistent_arches" \in DOMAIN error.detail
    /\ Cardinality(error.detail.inconsistent_arches) = 2

Complete(r) == r.name # "" /\ r.version # "" /\ r.arch # "" /\ r.filename # <<>>

StanzaComplete(stanza) ==
    /\ stanza.Package # ""
    /\ stanza.Version # ""
    /\ stanza.Architecture # ""
    /\ stanza.Filename # <<>>

\* C13: every record stored in pkgs_by_name or provides_index has a non-empty
\* name, version, arch and filename; with a stanza that lacks one of Package,
\* Version, Architecture, Filename the index build fails and the resolver gets no
\* index at all.
C13_RecordsComplete ==
    /\ \A n \in DOMAIN pkgs_by_name :
           \A i \in DOMAIN pkgs_by_name[n] : Complete(pkgs_by_name[n][i])
    /\ \A n \in DOMAIN provides_index :
           \A i \in DOMAIN provides_index[n] : Complete(provides_index[n][i])
    /\ (\E i \in DOMAIN repo : \E j \in DOMAIN repo[i].stanzas :
            ~StanzaComplete(repo[i].stanzas[j]))
           => /\ pc \in {"start", "failed", "aborted"}
              /\ pc = "failed" => error.kind = "IndexStructural"
              /\ pkgs_by_name = <<>>
              /\ provides_index = <<>>
              /\ fetches = <<>>

\* The index build has failed on a stanza without Filename.
C13_Witness ==
    /\ pc = "failed"
    /\ error.kind = "IndexStructural"
    /\ "malformed_stanza" \in DOMAIN error.detail
    /\ error.detail.malformed_stanza.Filename = <<>>

\* host/suite/component/binary-arch for a stem host-suite-component-binary-arch,
\* host being all that precedes the last four segments.
ExpectedHint(stem) ==
    SubSeq(stem, 1, Len(stem) - 8)
    \o <<"/", stem[Len(stem) - 6], "/", stem[Len(stem) - 4], "/">>
    \o SubSeq(stem, Len(stem) - 2, Len(stem))

\* C14: every record read from an index file named
\* <host>-<suite>-<component>-binary-<arch>.txt has source_hint
\* <host>/<suite>/<component>/binary-<arch>.
C14_SourceHint ==
    \A n \in DOMAIN pkgs_by_name :
        \A i \in DOMAIN pkgs_by_name[n] :
            pkgs_by_name[n][i].source_hint \in {ExpectedHint(repo[k].stem) : k \in DOMAIN repo}

\* What resolve_single_atom yields for one atom on index idx.
AtomResult(atom, idx) ==
    resolve_single_atom(atom, idx.target_arch, idx.pkgs_by_name, idx.provides_index)

Resolvable(atoms, idx) == {i \in DOMAIN atoms : AtomResult(atoms[i], idx) # NoRecord}

\* C15: resolve_dep_alternatives returns what resolve_single_atom yields for the
\* leftmost atom of the group that is applicable and resolvable, whatever the atoms
\* to its right would give; atoms that are not applicable or not resolvable are
\* passed over, and the group fails only when no atom resolves.
C15_LeftmostResolvable ==
    lastRes.call = "group"
        => IF Resolvable(lastRes.atoms, Index) = {}
           THEN lastRes.result = NoRecord
           ELSE lastRes.result =
                    AtomResult(lastRes.atoms[Min(Resolvable(lastRes.atoms, Index))], Index)

\* a [amd64 i386] | v | a on arm64: the first atom is passed over, v is chosen, and
\* a, to its right, would have given a newer version.
C15_Witness ==
    /\ lastRes.call = "group"
    /\ Len(lastRes.atoms) = 3
    /\ lastRes.atoms[1].arch_list # <<>>
    /\ lastRes.result # NoRecord
    /\ lastRes.result = AtomResult(lastRes.atoms[2], Index)
    /\ AtomResult(lastRes.atoms[3], Index) # NoRecord
    /\ VersionLess(lastRes.result.version, AtomResult(lastRes.atoms[3], Index).version)

\* The records named atom.name that pass the arch and version filters, and the
\* providers of atom.name that pass the arch and provided-version filters.
DirectOk(atom, idx) ==
    {r \in Range(Lookup(idx.pkgs_by_name, atom.name, <<>>)) :
        /\ ArchAllowed(atom, r, idx.target_arch)
        /\ _version_satisfies(r.version, atom.op, atom.ver)}

ProviderOk(atom, idx) ==
    {r \in Range(Lookup(idx.provides_index, atom.name, <<>>)) :
        /\ ArchAllowed(atom, r, idx.target_arch)
        /\ \/ atom.op = None
           \/ atom.ver = None
           \/ _version_satisfies(IF Declared(r, atom.name) \in {None, ""}
                                 THEN r.version ELSE Declared(r, atom.name),
                                 atom.op, atom.ver)}

FromFirst(result, direct, providers) ==
    IF direct # {} THEN result \in direct
    ELSE IF providers # {} THEN result \in providers
    ELSE result = NoRecord

DirectFirst(atom, result, idx) ==
    _arch_restriction_allows(atom, idx.target_arch)
        => FromFirst(result, DirectOk(atom, idx), ProviderOk(atom, idx))

\* C16: for an applicable atom, whenever a record named atom.name passes the arch
\* and version filters resolve_single_atom returns one of those records and never
\* a provider; providers are considered exactly when no such record passes, also
\* when records of that name exist and all fail a filter.
C16_DirectFirst ==
    lastRes.call = "atom" => DirectFirst(lastRes.atoms[1], lastRes.result, Index)

\* v names a record of version 1.0 and is provided by a newer a: the record named v
\* is returned.
C16_Witness ==
    /\ lastRes.call = "atom"
    /\ lastRes.atoms[1] = Atom("v")
    /\ lastRes.result # NoRecord
    /\ lastRes.result.name = "v"
    /\ \E r \in ProviderOk(lastRes.atoms[1], Index) :
           r.name = "a" /\ VersionLess(lastRes.result.version, r.version)

\* The stanzas of the repository, and what a stanza declares in its Provides field
\* for one virtual name.
StanzasOf(text_files) ==
    UNION {Range(text_files[i].stanzas) : i \in DOMAIN text_files}

Declares(stanza, virtual_name) ==
    {p \in Range(stanza.Provides) : p.name = virtual_name}

\* A declaration "virt (= pver)" satisfies (op, needed) by pver; a declaration of
\* the bare name satisfies it by the provider's own version.
DeclarationSatisfies(p, stanza, op, needed_version) ==
    IF p.ver # None
    THEN _version_satisfies(p.ver, op, needed_version)
    ELSE _version_satisfies(stanza.Version, op, needed_version)

ProviderAccepted(atom, stanza, arch) ==
    /\ ArchAllowed(atom, [arch |-> stanza.Architecture], arch)
    /\ \E p \in Declares(stanza, atom.name) :
           DeclarationSatisfies(p, stanza, atom.op, atom.ver)

\* C17: a versioned, applicable atom that no record of its own name satisfies is
\* resolved to a provider whose declaration of the atom's name satisfies (op,
\* needed) - by the declared version pver, or by the provider's own version under
\* a bare declaration - and is left unresolved only when the repository holds no
\* such provider.
C17_VersionedProvides ==
    (/\ lastRes.call = "atom"
     /\ lastRes.atoms[1].op # None
     /\ lastRes.atoms[1].ver # None
     /\ _arch_restriction_allows(lastRes.atoms[1], Index.target_arch)
     /\ DirectOk(lastRes.atoms[1], Index) = {})
        => IF lastRes.result = NoRecord
           THEN \A stanza \in StanzasOf(repo) :
                    ~ProviderAccepted(lastRes.atoms[1], stanza, Index.target_arch)
           ELSE \E stanza \in StanzasOf(repo) :
                    /\ ProviderAccepted(lastRes.atoms[1], stanza, Index.target_arch)
                    /\ stanza.Package = lastRes.result.name
                    /\ stanza.Version = lastRes.result.version
                    /\ stanza.Architecture = lastRes.result.arch

\* The candidates _select_best_candidate is called with for an atom.
FirstNonEmpty(direct, providers) == IF direct # {} THEN direct ELSE providers

Candidates(atom, idx) == FirstNonEmpty(DirectOk(atom, idx), ProviderOk(atom, idx))

\* result is among the candidates, none of them is newer, and none of its version
\* has a greater source_hint.
IsBest(result, candidates) ==
    /\ result \in candidates
    /\ \A c \in candidates :
           /\ ~VersionLess(result.version, c.version)
           /\ VersionEq(c.version, result.version)
                 => ~StrLess(result.source_hint, c.source_hint)

BestOf(atom, result, idx, candidates) ==
    (_arch_restriction_allows(atom, idx.target_arch) /\ candidates # {})
        => IsBest(result, candidates)

\* C18: the record selected from a non-empty candidate list has a version that no
\* candidate exceeds under Debian version ordering, and among the candidates of
\* that same version none has a greater source_hint.
C18_BestCandidate ==
    lastRes.call = "atom"
        => BestOf(lastRes.atoms[1], lastRes.result, Index,
                  Candidates(lastRes.atoms[1], Index))

\* Two candidates of equal version from two index files, the one of the smaller
\* source_hint first in the list: the second one is selected.
C18_Witness ==
    /\ lastRes.call = "atom"
    /\ lastRes.atoms[1] = Atom("a")
    /\ Len(Lookup(Index.pkgs_by_name, "a", <<>>)) = 2
    /\ lastRes.result = Index.pkgs_by_name["a"][2]
    /\ VersionEq(Index.pkgs_by_name["a"][1].version, lastRes.result.version)
    /\ StrLess(Index.pkgs_by_name["a"][1].source_hint, lastRes.result.source_hint)
    /\ Candidates(lastRes.atoms[1], Index) = Range(Index.pkgs_by_name["a"])

(***************************************************************************)
(* The tool is one sequential process: while it is alive inside the walk   *)
(* it keeps taking the next step of the loop, and every GET it issues      *)
(* returns (GetOk or GetFail).                                             *)
(* Being killed and being run again are up to the environment.  The index  *)
(* is the one in which a and b can depend on each other and v is an alias  *)
(* of a; the command line gives MaxPackages names, each a or v, so that    *)
(* every walk starts, and MaxUrls base URLs.                               *)
(***************************************************************************)
InitFair ==
    /\ repo = <<File(StemA, <<StA, StB>>)>>
    /\ packages \in [1..MaxPackages -> {Atom("a"), Atom("v")}]
    /\ base_urls = SubSeq(Mirrors, 1, MaxUrls)
    /\ control \in ControlsOf(repo)
    /\ ProcessStart
    /\ disk = <<>>
    /\ run = 1
    /\ prev_exit = None
    /\ lastRes = NoCall

\* One step of the while loop of fetch_dependencies_recursive, lines 1034-1056.
WalkStep ==
    \/ Pop
    \/ GetOk
    \/ GetFail
    \/ Open
    \/ Write
    \/ ReadControl

SpecFair == InitFair /\ [][Next]_vars /\ WF_vars(WalkStep)

\* Inside fetch_dependencies_recursive, and out of it: returned to the loop over
\* the top-level names, or the process ended by an error or a kill.
Walking == pc \in {"walk", "get", "open", "write", "read_control"}

Returned == pc \in {"toplevel", "failed", "aborted"}

\* C19: on every index, cyclic dependencies included, and with every GET
\* returning, a walk that has started ends: fetch_dependencies_recursive raises or
\* empties its stack and returns; and no triple is fetched twice on the way.
C19_WalkTerminates ==
    /\ [](\A i, j \in DOMAIN fetches : PkgKey(fetches[i]) = PkgKey(fetches[j]) => i = j)
    /\ Walking ~> Returned

\* a depends on b and v, b depends on a and v, and v is an alias of a: the walk from
\* a has popped a again, skipped it, emptied the stack and returned.
C19_Witness ==
    /\ pc = "toplevel"
    /\ pkgIdx = 2
    /\ packages[1] = Atom("a")
    /\ control[PathA] = Fields(<<<<Atom("v")>>>>, <<<<Atom("b")>>, <<Atom("b")>>>>)
    /\ control[PathB] = Fields(<<>>, <<<<Atom("a")>>, <<Atom("v")>>>>)
    /\ {fetches[i].name : i \in DOMAIN fetches} = {"a", "b"}
    /\ Len(fetches) = 2
    /\ stack = <<>>

\* base without its trailing slashes, "/", and filename without its leading ones.
UrlAt(base, filename) ==
    SubSeq(base, 1, Max({0} \cup {i \in DOMAIN base : base[i] # "/"}))
    \o <<"/">>
    \o SubSeq(filename,
              Min({Len(filename) + 1} \cup {i \in DOMAIN filename : filename[i] # "/"}),
              Len(filename))

\* C20: the requests made for the artifact in hand go to the base URLs by position:
\* the i-th request is for base_urls[i], it is made only after the i - 1 requests
\* before it have failed, no position is requested twice and none after a success;
\* and once the file is written it holds the body of that one successful response.
C20_UrlsInOrder ==
    gets # <<>>
        => /\ Len(gets) <= Len(base_urls)
           /\ \A i \in DOMAIN gets :
                  /\ gets[i].url = UrlAt(base_urls[i], Last(fetches).filename)
                  /\ i < Len(gets) => ~gets[i].ok
           /\ pc = "get" => ~Last(gets).ok /\ urlIdx = Len(gets) + 1
           /\ pc \in {"open", "write"}
                 => /\ Last(gets).ok
                    /\ response = [path |-> LStripSlash(Last(fetches).filename)]
           /\ (Last(gets).ok /\ pc \notin {"open", "write", "aborted"})
                 => /\ Basename(Last(fetches).filename) \in DOMAIN disk
                    /\ disk[Basename(Last(fetches).filename)]
                           = [path |-> LStripSlash(Last(fetches).filename),
                              complete |-> TRUE]

\* The first base URL has failed, the second has answered, and the file is written.
C20_Witness ==
    /\ pc = "read_control"
    /\ Len(base_urls) = 2
    /\ Len(gets) = 2
    /\ ~gets[1].ok
    /\ gets[2].ok
    /\ gets[1].url # gets[2].url
    /\ disk[Basename(pkg.filename)].complete

\* Pre-Depends, then Depends, of the control data inside the local .deb of the
\* record in hand.
LocalControl == control[disk[Basename(pkg.filename)].path]

\* What the step that reads the control data has to leave behind for dep_groups,
\* chosen being the record the index gives for each group: all pushed in order, or
\* the run failed on the first group that nothing satisfies.
Followed(dep_groups, chosen, unresolved) ==
    IF unresolved = {}
    THEN pc' = "walk" /\ stack' = stack \o chosen
    ELSE /\ pc' = "failed"
         /\ error'.kind = "Unsatisfied"
         /\ error'.alt_group = dep_groups[Min(unresolved)]
         /\ stack' = <<>>

FollowedFrom(dep_groups, chosen) ==
    Followed(dep_groups, chosen, {g \in DOMAIN chosen : chosen[g] = NoRecord})

FollowedGroups(dep_groups) ==
    FollowedFrom(dep_groups,
                 [g \in DOMAIN dep_groups |->
                     FirstResolved(dep_groups[g], NoRecord, target_arch, pkgs_by_name,
                                   provides_index)])

\* C21: the step that reads a readable local .deb resolves and pushes exactly the
\* groups of the Pre-Depends and Depends of its control data, whatever the index
\* stanza of the record says; a group of the control data that nothing in the index
\* satisfies ends the run as unsatisfied and is not skipped.
C21_ControlDataFollowed ==
    [][(/\ pc = "read_control"
        /\ pc' # "aborted"
        /\ disk[Basename(pkg.filename)].complete)
          => FollowedGroups(LocalControl.PreDepends \o LocalControl.Depends)]_vars

\* The stanza of a says Depends: b, the control data of a.deb says Depends: x, and
\* x is in no index: the run has failed as unsatisfied on x, and b was not fetched.
C21_Witness ==
    /\ pc = "failed"
    /\ error.kind = "Unsatisfied"
    /\ Len(fetches) = 1
    /\ "alt_group" \in DOMAIN error
    /\ error.alt_group = <<Atom("x")>>
    /\ fetches[1].name = "a"
    /\ fetches[1].depends_raw = <<<<Atom("b")>>>>
    /\ control[PathA] = Fields(<<>>, <<<<Atom("x")>>>>)

\* A call of fetch_dependencies_recursive starts, and one returns.
WalkStarts == pc = "toplevel" /\ pc' = "walk"

WalkReturns == pc = "walk" /\ pc' = "toplevel"

\* C22, as the specification states it: each call of fetch_dependencies_recursive
\* has visited sets of its own, so a call starts with both sets empty and meets
\* nothing that the call for another top-level name wrote.
C22_SetsPerWalk ==
    [][WalkStarts => (visited_pkgkeys = {} /\ visited_filenames = {})]_vars

\* C22, as the code has it: the two sets belong to one invocation of the tool.
\* They are empty when the index has been built, every call of
\* fetch_dependencies_recursive of that invocation starts with what the calls
\* before it left and leaves its own additions to the calls after it, and
\* visited_pkgkeys always holds the triples processed for all top-level names so
\* far.
C22_SetsPerRun ==
    /\ [][/\ (pc = "start" /\ pc' = "toplevel")
                => (visited_pkgkeys' = {} /\ visited_filenames' = {})
          /\ (WalkStarts \/ WalkReturns)
                => /\ visited_pkgkeys' = visited_pkgkeys
                   /\ visited_filenames' = visited_filenames]_vars
    /\ [](pc \in {"toplevel", "walk"}
            => /\ visited_pkgkeys = {PkgKey(fetches[i]) : i \in DOMAIN fetches}
               /\ visited_filenames = {fetches[i].filename : i \in DOMAIN fetches})

\* The call for the second top-level name has started on a record that the call for
\* the first one has put in visited_pkgkeys: the pop will skip it.
C22_Witness ==
    /\ pc = "walk"
    /\ pkgIdx = 2
    /\ Len(stack) = 1
    /\ PkgKey(stack[1]) \in visited_pkgkeys
    /\ stack[1].filename \in visited_filenames
    /\ Len(fetches) >= 1

\* The text of some alternative of the call holds a build-profile annotation.
HasProfile(raw) == \E i \in DOMAIN raw : \E k \in DOMAIN raw[i] : raw[i][k] = "<p>"

\* C23: text with a build-profile annotation in an alternative, wherever it stands,
\* ends in a parse error: no DepAtom is built from it and no record is chosen for
\* its group.
C23_ProfileRejected ==
    (lastRes.call \in {"parse_atom", "parse_group"} /\ HasProfile(lastRes.raw))
        => /\ lastRes.error.kind = "ParseError"
           /\ lastRes.atoms = <<>>
           /\ lastRes.result = NoRecord

(***************************************************************************)
(* One invocation as a function of its arguments: the loop over the        *)
(* top-level names and the walk of each, from the download directory dir,  *)
(* with every GET answered by the first base URL.  It says what the        *)
(* program does with the names in another order.                           *)
(***************************************************************************)
RECURSIVE RunFrom(_, _, _, _, _, _)

\* Lines 906-930: the local file is kept if it exists, else it gets the body
\* fetched for p's relative path.
Downloaded(p, dir) ==
    IF LocalFileExists(Basename(p.filename), dir) THEN dir
    ELSE Put(dir, Basename(p.filename),
             [path |-> LStripSlash(p.filename), complete |-> TRUE])

\* Lines 1049-1056: r is the stack after the groups were pushed, or the error.
DepsPushed(names, i, r, visited, dir, idx) ==
    IF ~r.ok THEN [ok |-> FALSE]
    ELSE RunFrom(names, i, r.stack, visited, dir, idx)

\* Lines 1043 and 971-984: the control data of the local file is read.
DepsFollowed(names, i, rest, p, visited, dir, idx) ==
    DepsPushed(names, i,
               PushChosen(ControlDeps(dir[Basename(p.filename)]),
                          [ok |-> TRUE, stack |-> rest],
                          idx.target_arch, idx.pkgs_by_name, idx.provides_index),
               visited, dir, idx)

\* Lines 1035-1043: p has been popped, rest is the stack without it.
Processed(names, i, rest, p, visited, dir, idx) ==
    IF AlreadyVisited(PkgKey(p), visited)
    THEN RunFrom(names, i, rest, visited, dir, idx)
    ELSE DepsFollowed(names, i, rest, p, visited \cup {PkgKey(p)}, Downloaded(p, dir), idx)

\* Lines 1017-1031: the walk of names[i] starts from the record resolved for it.
RootWalked(names, i, top_pkg, visited, dir, idx) ==
    IF top_pkg = NoRecord THEN [ok |-> FALSE]
    ELSE RunFrom(names, i + 1, <<top_pkg>>, visited, dir, idx)

\* Lines 1107-1117 and 1031-1056: names[i] is the next top-level name, stk the
\* stack of the walk under way.
RunFrom(names, i, stk, visited, dir, idx) ==
    IF stk # <<>>
    THEN Processed(names, i, Popped(stk), stk[Len(stk)], visited, dir, idx)
    ELSE IF AllWalked(i, names)
    THEN [ok |-> TRUE, visited_pkgkeys |-> visited, disk |-> dir]
    ELSE RootWalked(names, i,
                    resolve_single_atom(names[i], idx.target_arch, idx.pkgs_by_name,
                                        idx.provides_index),
                    visited, dir, idx)

\* The run of the tool with the top-level names in the order names, the download
\* directory empty.
RunOf(names, idx) == RunFrom(names, 1, <<>>, {}, <<>>, idx)

\* packages in every order.
Orders(names) == {[i \in DOMAIN names |-> names[f[i]]] : f \in Permutations(DOMAIN names)}

SameVisited(r) == r.ok => r.visited_pkgkeys = visited_pkgkeys

SameForAll(names, idx) == \A order \in Orders(names) : SameVisited(RunOf(order, idx))

\* C24: when a run that started with an empty download directory has finished
\* without error, every run with the same top-level names in another order that
\* finishes without error ends with the same visited_pkgkeys.
C24_OrderIndependent ==
    (pc = "done" /\ run = 1) => SameForAll(packages, Index)

\* RunOf is the run the actions make: a finished first run has the visited set and
\* the download directory RunOf computes for its own order.
RunOfAgrees ==
    (pc = "done" /\ run = 1)
        => RunOf(packages, Index) = [ok |-> TRUE, visited_pkgkeys |-> visited_pkgkeys,
                                     disk |-> disk]

\* The local file of record r holds the body fetched for r's own relative path.
HoldsOwnBody(r, dir) ==
    /\ Basename(r.filename) \in DOMAIN dir
    /\ dir[Basename(r.filename)] = [path |-> LStripSlash(r.filename), complete |-> TRUE]

\* C25: when a run that started with an empty download directory has finished
\* without error, the local file named by the base name of every visited record's
\* Filename holds the body fetched for that record's own relative path, also when
\* two visited records have one base name.
C25_OwnBodyOnDisk ==
    (pc = "done" /\ run = 1) => \A i \in DOMAIN fetches : HoldsOwnBody(fetches[i], disk)

=============================================================================
